---- MODULE Spec2Model ----
(***************************************************************************)
(* State-machine model of app/main.py (printer-cam): the grabber thread,   *)
(* the Prusa pusher thread, the lifespan start/stop handler, the           *)
(* /snapshot.jpg handler and the /mjpeg generators, all sharing the        *)
(* module-level _last_jpeg slot guarded by _cap_lock.                      *)
(*                                                                         *)
(* Time is measured from the stop signal on, in ticks of TickSeconds (2 s, *)
(* the join timeout).  The signal arrives at any point of a running        *)
(* time.sleep(PUSH_EVERY): 0..PushTicks ticks of it are left.  What is     *)
(* left of that sleep, and join(timeout=2.0), are countdowns that only     *)
(* Tick decreases; neither returns before its countdown reaches 0.  Sleeps *)
(* shorter than a tick (1.0 s, 0.5 s, 0.2 s, 1/30 s, 1/15 s) span zero or  *)
(* more ticks.  Plain computation steps (loop tests, lock hand-over,       *)
(* reference reads, the return from a time.sleep(PUSH_EVERY) that has run  *)
(* out) take no time: Tick is disabled while one of them is pending        *)
(* (Urgent).  Blocking calls into the camera or the network may            *)
(* take any time.  Before the stop signal no duration is compared with     *)
(* another, and every wait simply ends at some point.  Nothing runs once   *)
(* lifespan has returned from its stop half (the process exits).           *)
(*                                                                         *)
(* A local variable is set back to its initial value once it is dead       *)
(* (it is assigned again before its next use).                             *)
(***************************************************************************)
EXTENDS Integers, Sequences, FiniteSets, TLC

\* ---------------------------------------------------------------- bounds
\* frames the camera delivers in one run
MaxFrames == 2
\* read failures of cap.read() in one run
MaxFails == 2
\* failed open_capture() calls in a row
MaxOpenFails == 1
\* upload attempts in one run
MaxUploads == 1
\* segments one stream client receives per connection
MaxSegs == 2

\* ------------------------------------------------------ program constants
WIDTH == 1280
HEIGHT == 720
\* PUSH_EVERY, seconds
PUSH_EVERY == 10
\* t.join(timeout=2.0), seconds
JOIN_TIMEOUT == 2
\* the length of one tick, seconds
TickSeconds == JOIN_TIMEOUT
PushTicks == PUSH_EVERY \div TickSeconds
JoinTicks == JOIN_TIMEOUT \div TickSeconds

\* shapes (width, height) the camera may deliver
CamShapes == {<<WIDTH, HEIGHT>>, <<640, 480>>}
\* values of PRUSA_TOKEN / PRUSA_FINGERPRINT taken from the environment
TokenValues == {"", "token"}
FingerprintValues == {"", "fingerprint"}
\* the /mjpeg clients
Clients == {"c1", "c2"}
\* the /mjpeg clients that connect in Spec (the others never do)
SpecClients == {"c1"}
\* what cap.set(CAP_PROP_FOURCC / FRAME_WIDTH / FRAME_HEIGHT / FPS) does on the
\* V4L2 session: the hints are taken, are turned down (set returns False), or
\* setting the FOURCC raises (caught and logged)
HintOutcomes == {"accepted", "rejected", "raised"}
\* everything that takes _cap_lock
LockUsers == {"grabber", "prusa", "snapshot"} \cup Clients

\* Optional[bytes]
None == [some |-> FALSE, bytes |-> << >>]
Some(b) == [some |-> TRUE, bytes |-> b]
\* Python truthiness of an Optional[bytes]: None and b"" are falsy
Truthy(d) == d.some /\ Len(d.bytes) > 0

NoResponse == [status_code |-> 0, media_type |-> "", content |-> << >>]
\* no open_capture() has been called on its own
NoAnswers == [has |-> FALSE, gst |-> FALSE, v4l |-> FALSE, hints |-> "",
              kept |-> FALSE, tried |-> << >>]
NoSegment == [marker |-> "", content_type |-> "", content_length |-> << >>,
              payload |-> << >>, trailer |-> ""]

VARIABLES
  PRUSA_TOKEN, PRUSA_FINGERPRINT, \* configuration read at import
  last_jpeg,                      \* _last_jpeg
  cap_lock,                       \* holder of _cap_lock, or "free"
  stop_event,                     \* stop_event.is_set()
  threads,                        \* the module-level thread list
  lpc, li, jtimer,                \* lifespan: position, loop index, join countdown
  gpc, gdata,                     \* grabber_worker: position and local data
  cap,                            \* the capture session: "none", "open", "released"
  via,                            \* what the open_capture() just made returned
  ppc, pdata,                     \* prusa_pusher_worker: position and local data
  ptimer,                         \* ticks left of time.sleep(PUSH_EVERY) at the stop signal
  spc, sdata, sresp,              \* snapshot(): position, local, response
  cpc, cdata, cout, ccount,       \* mjpeg gen() per client: position, local,
                                  \* last chunk yielded, chunks yielded
  \* history (ghost) variables
  published,                      \* every value assigned to _last_jpeg, in order
  nread,                          \* frames delivered by cap.read()
  nfail,                          \* failed cap.read() calls
  nopened,                        \* successful open_capture() calls
  opens,                          \* open_capture() calls since the last failed read
  backoff,                        \* a sleep has completed since the last open_capture()
  uploads,                        \* sess.put() calls
  pslept,                         \* a PUSH_EVERY sleep has completed since the last put
  putfailed,                      \* the last sess.put() ended >= 400 or raised
  answers,                        \* open_capture() called on its own: what cv2 answered
  lastvia,                        \* ... and what the call before it returned
  seen                            \* per lock user: Len(published) when it took the lock

cfgvars == <<PRUSA_TOKEN, PRUSA_FINGERPRINT>>
sharedvars == <<last_jpeg, cap_lock, stop_event, threads>>
lvars == <<lpc, li, jtimer>>
gvars == <<gpc, cap, via, gdata>>
pvars == <<ppc, pdata, ptimer>>
svars == <<spc, sdata, sresp>>
cvars == <<cpc, cdata, cout, ccount>>
gghost == <<nread, nfail, nopened, opens, backoff>>
pghost == <<uploads, pslept, putfailed>>
callvars == <<answers, lastvia>>
vars == <<cfgvars, callvars, sharedvars, lvars, gvars, pvars, svars, cvars,
          published, gghost, pghost, seen>>

\* ------------------------------------------------------------ pure helpers

\* cv2.imencode(".jpg", frame) followed by buf.tobytes(): a JPEG byte string
\* (SOI marker, the image data, EOI marker).  The k-th captured frame stands
\* for 7 + k bytes of image data of value k, so distinct frames encode to
\* distinct, non-empty byte strings of distinct lengths of two digits.
EncodeJpeg(f) == <<255, 216>> \o [i \in 1..(7 + f.n) |-> f.n] \o <<255, 217>>

\* str(n).encode() for n >= 0: the decimal digits, most significant first
RECURSIVE Str(_)
Str(n) == IF n < 10 THEN <<n>> ELSE Str(n \div 10) \o <<n % 10>>

\* int(digits): what an HTTP client reads back from a Content-Length value
RECURSIVE ParseInt(_)
ParseInt(ds) ==
  IF Len(ds) = 0 THEN 0
  ELSE 10 * ParseInt(SubSeq(ds, 1, Len(ds) - 1)) + ds[Len(ds)]

\* a faulty gen(): Content-Length counts the trailing CRLF as well
SegmentLengthOfChunk(data) ==
  [marker |-> "--frame\r\n",
   content_type |-> "Content-Type: image/jpeg\r\n",
   content_length |-> Str(Len(data.bytes) + 2),
   payload |-> data.bytes,
   trailer |-> "\r\n"]

\* one multipart chunk yielded by gen()
Segment(data) ==
  [marker |-> "--frame\r\n",
   content_type |-> "Content-Type: image/jpeg\r\n",
   content_length |-> Str(Len(data.bytes)),
   payload |-> data.bytes,
   trailer |-> "\r\n"]

\* a faulty snapshot(): the test "if not data" is missing
SnapshotResponseUnchecked(data) ==
  [status_code |-> 200, media_type |-> "image/jpeg", content |-> data.bytes]

\* Response(status_code=503) / Response(content=data, media_type="image/jpeg")
SnapshotResponse(data) ==
  IF ~Truthy(data)
  THEN [status_code |-> 503, media_type |-> "", content |-> << >>]
  ELSE [status_code |-> 200, media_type |-> "image/jpeg", content |-> data.bytes]

\* open_capture(): the backend whose session is returned, or "error" (the
\* RuntimeError), from what cv2 answers.  has: hasattr(cv2, "CAP_GSTREAMER");
\* gst: VideoCapture(GST_PIPE, CAP_GSTREAMER).isOpened(); v4l:
\* VideoCapture(DEVICE).isOpened(); kept: cap.isOpened() after the
\* FOURCC/size/FPS hints were applied.
open_with_gstreamer(has, gst) == IF ~has THEN "none" ELSE IF gst THEN "gst" ELSE "none"
\* a faulty _open_with_v4l2(): a session whose hints were not taken is given up
open_with_v4l2_strict(v4l, hints, kept) ==
  IF ~v4l THEN "none"
  ELSE IF hints # "accepted" THEN "none"
  ELSE IF kept THEN "v4l2" ELSE "none"

\* hints: what became of the FOURCC/size/FPS hints; whatever it is, the
\* function goes on to its second isOpened() test
open_with_v4l2(v4l, hints, kept) ==
  IF ~v4l THEN "none"
  ELSE IF hints \in HintOutcomes /\ kept THEN "v4l2" ELSE "none"
open_capture(has, gst, v4l, hints, kept) ==
  IF open_with_gstreamer(has, gst) # "none" THEN open_with_gstreamer(has, gst)
  ELSE IF open_with_v4l2(v4l, hints, kept) # "none" THEN open_with_v4l2(v4l, hints, kept)
  ELSE "error"
\* the backends open_capture() calls, in order: _open_with_v4l2() only when
\* _open_with_gstreamer() returned None
BackendsTried(has, gst) ==
  IF open_with_gstreamer(has, gst) # "none" THEN <<"gst">> ELSE <<"gst", "v4l2">>

\* a faulty test: "and" in the place of "or"
PusherDisabledWhenBothUnset == PRUSA_TOKEN = "" /\ PRUSA_FINGERPRINT = ""

\* the test at the top of prusa_pusher_worker
PusherDisabled == PRUSA_TOKEN = "" \/ PRUSA_FINGERPRINT = ""

\* t.is_alive()
Alive(t) ==
  IF t = "grabber" THEN gpc \notin {"unstarted", "done", "crashed"}
  ELSE ppc \notin {"unstarted", "done"}

\* a faulty writer: the bytes are copied into the shared buffer in place, and
\* a reader can see the first half of the new frame in front of what was
\* there before
PublishInPlace(data) ==
  last_jpeg' = Some(SubSeq(data, 1, Len(data) \div 2)
                    \o SubSeq(last_jpeg.bytes, Len(data) \div 2 + 1, Len(last_jpeg.bytes)))

\* a faulty writer: the slot is filled only while it is empty
PublishIfEmpty(data) ==
  last_jpeg' = IF last_jpeg.some THEN last_jpeg ELSE Some(data)

\* the assignment _last_jpeg = data
Publish(data) == last_jpeg' = Some(data)

\* the read data = _last_jpeg
ReadBuffer == last_jpeg

\* the interpreter is still running: once lifespan has logged "Service
\* gestoppt." the server returns, the process exits and the daemon threads
\* are gone
Running == lpc # "stopped"

\* --------------------------------------------------------------- initial
Init ==
  /\ PRUSA_TOKEN \in TokenValues
  /\ PRUSA_FINGERPRINT \in FingerprintValues
  /\ last_jpeg = None
  /\ cap_lock = "free"
  /\ stop_event = FALSE
  /\ threads = << >>
  /\ lpc = "init" /\ li = 1 /\ jtimer = 0
  /\ gpc = "unstarted" /\ cap = "none" /\ via = "none" /\ gdata = << >>
  /\ ppc = "unstarted" /\ pdata = None /\ ptimer = 0
  /\ spc = "idle" /\ sdata = None /\ sresp = NoResponse
  /\ cpc = [c \in Clients |-> "idle"]
  /\ cdata = [c \in Clients |-> None]
  /\ cout = [c \in Clients |-> NoSegment]
  /\ ccount = [c \in Clients |-> 0]
  /\ published = << >>
  /\ nread = 0 /\ nfail = 0 /\ nopened = 0 /\ opens = 0 /\ backoff = FALSE
  /\ uploads = 0 /\ pslept = FALSE /\ putfailed = FALSE
  /\ answers = NoAnswers /\ lastvia = "none"
  /\ seen = [u \in LockUsers |-> 0]

\* --------------------------------------------------------------- lifespan
\* lifespan start: stop_event.clear(), both threads started and appended
Startup ==
  /\ lpc = "init"
  /\ stop_event' = FALSE
  /\ gpc' = "outer"
  /\ ppc' = "start"
  /\ threads' = threads \o <<"grabber", "prusa">>
  /\ lpc' = "running"
  /\ UNCHANGED <<cfgvars, callvars, last_jpeg, cap_lock, li, jtimer, cap, via, gdata,
                 pdata, ptimer, svars, cvars, published, gghost, pghost, seen>>

\* for t in threads: if t.is_alive(): ...  from index i on: the index of the
\* first thread that is alive, or Len(threads) + 1 when the loop runs out
RECURSIVE NextJoin(_)
NextJoin(i) ==
  IF i > Len(threads) THEN i
  ELSE IF Alive(threads[i]) THEN i
  ELSE NextJoin(i + 1)

\* lifespan stop: stop_event.set(), then the for loop runs to its first
\* t.join(timeout=2.0), or to the end
Shutdown ==
  /\ lpc = "running"
  /\ stop_event' = TRUE
  /\ li' = NextJoin(1)
  /\ lpc' = IF li' > Len(threads) THEN "stopped" ELSE "join"
  /\ jtimer' = IF li' > Len(threads) THEN 0 ELSE JoinTicks
  /\ ptimer' \in (IF ppc = "sleep" THEN 0..PushTicks ELSE {0})
  /\ UNCHANGED <<cfgvars, callvars, last_jpeg, cap_lock, threads, gvars, ppc, pdata,
                 svars, cvars, published, gghost, pghost, seen>>

\* t.join(timeout=2.0) returns: the thread has ended, or the timeout ran
\* out; the for loop runs on to its next t.join(timeout=2.0), or to the end
LifespanJoin ==
  /\ lpc = "join"
  /\ ~Alive(threads[li]) \/ jtimer = 0
  /\ li' = NextJoin(li + 1)
  /\ lpc' = IF li' > Len(threads) THEN "stopped" ELSE "join"
  /\ jtimer' = IF li' > Len(threads) THEN 0 ELSE JoinTicks
  /\ UNCHANGED <<cfgvars, callvars, sharedvars, gvars, pvars, svars, cvars, published,
                 gghost, pghost, seen>>

\* ---------------------------------------------------------- grabber_worker
\* while not stop_event.is_set():        (outer loop test)
GrabberOuter ==
  /\ Running
  /\ gpc = "outer"
  /\ gpc' = IF stop_event THEN "done" ELSE "open"
  /\ UNCHANGED <<cfgvars, callvars, sharedvars, lvars, cap, via, gdata, pvars, svars,
                 cvars, published, gghost, pghost, seen>>

\* try: cap = open_capture()  except: log, time.sleep(1.0), continue
GrabberOpen ==
  /\ Running
  /\ gpc = "open"
  /\ \E has \in BOOLEAN, gst \in BOOLEAN, v4l \in BOOLEAN,
        hints \in HintOutcomes, kept \in BOOLEAN :
       /\ via' = open_capture(has, gst, v4l, hints, kept)
       /\ IF via' = "error"
          THEN /\ opens < MaxOpenFails
               /\ gpc' = "sleep_open"
               /\ UNCHANGED <<cap, nopened>>
          ELSE /\ cap' = "open"
               /\ nopened' = nopened + 1
               /\ gpc' = "inner"
  /\ opens' = opens + 1
  /\ backoff' = FALSE
  /\ UNCHANGED <<cfgvars, callvars, sharedvars, lvars, gdata, pvars, svars, cvars,
                 published, nread, nfail, pghost, seen>>

\* time.sleep(1.0) returns; continue
GrabberSleepOpen ==
  /\ Running
  /\ gpc = "sleep_open"
  /\ gpc' = "outer"
  /\ via' = "none"
  /\ backoff' = TRUE
  /\ UNCHANGED <<cfgvars, callvars, sharedvars, lvars, cap, gdata, pvars, svars,
                 cvars, published, nread, nfail, nopened, opens, pghost, seen>>

\* while not stop_event.is_set():        (inner loop test)
GrabberInner ==
  /\ Running
  /\ gpc = "inner"
  /\ gpc' = IF stop_event THEN "sleep_outer" ELSE "read"
  /\ via' = "none"
  /\ UNCHANGED <<cfgvars, callvars, sharedvars, lvars, cap, gdata, pvars, svars,
                 cvars, published, gghost, pghost, seen>>

\* a faulty failure path: cap.release() is missing
SessionKeptAfterReadFailure == "open"

\* what becomes of the session on a failed read: cap.release()
SessionAfterReadFailure == "released"

\* a faulty failure path: back to the outer loop test without any sleep
AfterReadFailureNoBackoff == "outer"

\* where the grabber goes after a failed read and cap.release(): into
\* time.sleep(0.5)
AfterReadFailure == "sleep_read"

\* where the grabber goes when cv2.imencode raises: the call is outside any
\* try, the exception leaves grabber_worker and the thread ends
AfterEncodeException == "crashed"

\* the try around cv2.resize: the frame after it.  The resize is attempted
\* only when the shape differs from (WIDTH, HEIGHT); when it raises, the
\* exception is logged and the frame stays as read.
Resized(f, raises) ==
  IF WIDTH # 0 /\ HEIGHT # 0 /\ (f.w # WIDTH \/ f.h # HEIGHT) /\ ~raises
  THEN [f EXCEPT !.w = WIDTH, !.h = HEIGHT]
  ELSE f

\* ok, frame = cap.read() returns.  On failure: cap.release(), then
\* time.sleep(0.5) and break.  On success the frame is resized and encoded:
\* cv2.imencode returns ok with the bytes, returns not ok, or raises.
GrabberRead ==
  /\ Running
  /\ gpc = "read"
  /\ \/ /\ nfail < MaxFails
        /\ nfail' = nfail + 1
        /\ opens' = 0
        /\ cap' = SessionAfterReadFailure
        /\ gpc' = AfterReadFailure
        /\ UNCHANGED <<gdata, nread>>
     \/ /\ nread < MaxFrames
        /\ nread' = nread + 1
        /\ \E shape \in CamShapes, raises \in BOOLEAN :
             LET f == Resized([n |-> nread + 1, w |-> shape[1], h |-> shape[2]], raises)
             IN \/ gdata' = EncodeJpeg(f) /\ gpc' = "acquire"
                \/ gpc' = "sleep_frame" /\ UNCHANGED gdata
                \/ gpc' = AfterEncodeException /\ UNCHANGED gdata
        /\ UNCHANGED <<cap, nfail, opens>>
  /\ UNCHANGED <<cfgvars, callvars, sharedvars, lvars, via, pvars, svars, cvars,
                 published, nopened, backoff, pghost, seen>>

\* time.sleep(0.5) returns; break
GrabberSleepRead ==
  /\ Running
  /\ gpc = "sleep_read"
  /\ gpc' = "sleep_outer"
  /\ backoff' = TRUE
  /\ UNCHANGED <<cfgvars, callvars, sharedvars, lvars, cap, via, gdata, pvars, svars,
                 cvars, published, nread, nfail, nopened, opens, pghost, seen>>

\* with _cap_lock:                        (acquire)
GrabberAcquire ==
  /\ Running
  /\ gpc = "acquire"
  /\ cap_lock = "free"
  /\ cap_lock' = "grabber"
  /\ gpc' = "publish"
  /\ UNCHANGED <<cfgvars, callvars, last_jpeg, stop_event, threads, lvars, cap, via, gdata,
                 pvars, svars, cvars, published, gghost, pghost, seen>>

\* _last_jpeg = data                      (and the lock is released)
GrabberPublish ==
  /\ Running
  /\ gpc = "publish"
  /\ Publish(gdata)
  /\ published' = Append(published, Some(gdata))
  /\ gdata' = << >>
  /\ cap_lock' = "free"
  /\ gpc' = "sleep_frame"
  /\ UNCHANGED <<cfgvars, callvars, stop_event, threads, lvars, cap, via, pvars, svars,
                 cvars, gghost, pghost, seen>>

\* time.sleep(max(0.0, 1.0 / max(FPS, 5)) / 2.0) returns
GrabberSleepFrame ==
  /\ Running
  /\ gpc = "sleep_frame"
  /\ gpc' = "inner"
  /\ UNCHANGED <<cfgvars, callvars, sharedvars, lvars, cap, via, gdata, pvars, svars,
                 cvars, published, gghost, pghost, seen>>

\* time.sleep(0.2) returns
GrabberSleepOuter ==
  /\ Running
  /\ gpc = "sleep_outer"
  /\ gpc' = "outer"
  /\ backoff' = TRUE
  /\ UNCHANGED <<cfgvars, callvars, sharedvars, lvars, cap, via, gdata, pvars, svars,
                 cvars, published, nread, nfail, nopened, opens, pghost, seen>>

Grabber ==
  \/ GrabberOuter \/ GrabberOpen \/ GrabberSleepOpen \/ GrabberInner \/ GrabberRead
  \/ GrabberSleepRead \/ GrabberAcquire
  \/ GrabberPublish \/ GrabberSleepFrame \/ GrabberSleepOuter

\* ----------------------------------------------------- prusa_pusher_worker
\* if not PRUSA_TOKEN or not PRUSA_FINGERPRINT: return
PusherStart ==
  /\ Running
  /\ ppc = "start"
  /\ ppc' = IF PusherDisabled THEN "done" ELSE "loop"
  /\ UNCHANGED <<cfgvars, callvars, sharedvars, lvars, gvars, pdata, ptimer, svars, cvars,
                 published, gghost, pghost, seen>>

\* while not stop_event.is_set(): time.sleep(PUSH_EVERY)   (the sleep begins)
PusherLoop ==
  /\ Running
  /\ ppc = "loop"
  /\ ppc' = IF stop_event THEN "done" ELSE "sleep"
  /\ UNCHANGED <<cfgvars, callvars, sharedvars, lvars, gvars, pdata, ptimer, svars, cvars,
                 published, gghost, pghost, seen>>

\* time.sleep(PUSH_EVERY) returns
PusherWake ==
  /\ Running
  /\ ppc = "sleep"
  /\ ptimer = 0
  /\ ppc' = "acquire"
  /\ pslept' = TRUE
  /\ UNCHANGED <<cfgvars, callvars, sharedvars, lvars, gvars, pdata, ptimer, svars, cvars,
                 published, gghost, uploads, putfailed, seen>>

\* with _cap_lock:                        (acquire)
PusherAcquire ==
  /\ Running
  /\ ppc = "acquire"
  /\ cap_lock = "free"
  /\ cap_lock' = "prusa"
  /\ seen' = [seen EXCEPT !["prusa"] = Len(published)]
  /\ ppc' = "read"
  /\ UNCHANGED <<cfgvars, callvars, last_jpeg, stop_event, threads, lvars, gvars, pdata, ptimer,
                 svars, cvars, published, gghost, pghost>>

\* the test in front of the upload: if not data: continue
PusherSkips(data) == ~Truthy(data)

\* data = _last_jpeg (lock released); if not data: continue
PusherRead ==
  /\ Running
  /\ ppc = "read"
  /\ cap_lock' = "free"
  /\ IF PusherSkips(ReadBuffer)
     THEN ppc' = "loop" /\ pdata' = None /\ seen' = [seen EXCEPT !["prusa"] = 0]
     ELSE ppc' = "put" /\ pdata' = ReadBuffer /\ UNCHANGED seen
  /\ UNCHANGED <<cfgvars, callvars, last_jpeg, stop_event, threads, lvars, gvars, ptimer, svars,
                 cvars, published, gghost, pghost>>

\* a faulty pusher: a failed upload is tried again at once
AfterPutRetry(outcome) == IF outcome = "ok" THEN "loop" ELSE "put"

\* a faulty pusher: an exception raised by sess.put() is not caught and ends
\* the thread
AfterPutUncaught(outcome) == IF outcome = "exception" THEN "done" ELSE "loop"

\* where the pusher goes after sess.put(): every outcome (a status below
\* 400, a status of 400 or more, an exception) is logged and the loop
\* continues
AfterPut(outcome) == "loop"

\* resp = sess.put(url, ..., files={"image": ("snapshot.jpg", data, "image/jpeg")})
\* returns or raises, and the outcome is logged
PusherPut(outcome) ==
  /\ Running
  /\ ppc = "put"
  /\ uploads < MaxUploads
  /\ uploads' = uploads + 1
  /\ pslept' = FALSE
  /\ putfailed' = (outcome # "ok")
  /\ ppc' = AfterPut(outcome)
  /\ pdata' = None
  /\ seen' = [seen EXCEPT !["prusa"] = 0]
  /\ UNCHANGED <<cfgvars, callvars, sharedvars, lvars, gvars, ptimer, svars, cvars,
                 published, gghost>>

Pusher ==
  \/ PusherStart \/ PusherLoop \/ PusherWake \/ PusherAcquire \/ PusherRead
  \/ \E outcome \in {"ok", "http_error", "exception"} : PusherPut(outcome)

\* ------------------------------------------------------- GET /snapshot.jpg
\* a request arrives; with _cap_lock:     (acquire)
SnapshotAcquire ==
  /\ Running
  /\ spc = "idle"
  /\ lpc = "running"
  /\ cap_lock = "free"
  /\ cap_lock' = "snapshot"
  /\ seen' = [seen EXCEPT !["snapshot"] = Len(published)]
  /\ spc' = "read"
  /\ UNCHANGED <<cfgvars, callvars, last_jpeg, stop_event, threads, lvars, gvars, pvars, sdata,
                 sresp, cvars, published, gghost, pghost>>

\* data = _last_jpeg (lock released)
\* if not data: return Response(status_code=503)
\* return Response(content=data, media_type="image/jpeg")
SnapshotRead ==
  /\ Running
  /\ spc = "read"
  /\ sdata' = ReadBuffer
  /\ cap_lock' = "free"
  /\ sresp' = SnapshotResponse(sdata')
  /\ spc' = "sent"
  /\ UNCHANGED <<cfgvars, callvars, last_jpeg, stop_event, threads, lvars, gvars, pvars,
                 cvars, published, gghost, pghost, seen>>

\* the response has gone out; the handler's frame is gone
SnapshotDone ==
  /\ Running
  /\ spc = "sent"
  /\ spc' = "idle"
  /\ sdata' = None
  /\ sresp' = NoResponse
  /\ seen' = [seen EXCEPT !["snapshot"] = 0]
  /\ UNCHANGED <<cfgvars, callvars, sharedvars, lvars, gvars, pvars, cvars, published,
                 gghost, pghost>>

Snapshot == SnapshotAcquire \/ SnapshotRead \/ SnapshotDone

\* ------------------------------------------------------------- GET /mjpeg
\* a client connects: StreamingResponse starts iterating gen(), which runs
\* to its first test: if stop_event.is_set(): break
ClientConnect(c) ==
  /\ Running
  /\ cpc[c] = "idle"
  /\ lpc = "running"
  /\ cpc' = [cpc EXCEPT ![c] = IF stop_event THEN "ended" ELSE "acquire"]
  /\ ccount' = [ccount EXCEPT ![c] = 0]
  /\ UNCHANGED <<cfgvars, callvars, sharedvars, lvars, gvars, pvars, svars, cdata, cout,
                 published, gghost, pghost, seen>>

\* the client goes away: the generator is closed where it is suspended (at
\* its yield), or the ended response is done with
ClientDisconnect(c) ==
  /\ Running
  /\ cpc[c] \in {"yielded", "ended"}
  /\ cpc' = [cpc EXCEPT ![c] = "idle"]
  /\ cdata' = [cdata EXCEPT ![c] = None]
  /\ cout' = [cout EXCEPT ![c] = NoSegment]
  /\ ccount' = [ccount EXCEPT ![c] = 0]
  /\ seen' = [seen EXCEPT ![c] = 0]
  /\ UNCHANGED <<cfgvars, callvars, sharedvars, lvars, gvars, pvars, svars, published, gghost,
                 pghost>>

\* with _cap_lock:                        (acquire)
ClientAcquire(c) ==
  /\ Running
  /\ cpc[c] = "acquire"
  /\ ccount[c] < MaxSegs
  /\ cap_lock = "free"
  /\ cap_lock' = c
  /\ seen' = [seen EXCEPT ![c] = Len(published)]
  /\ cpc' = [cpc EXCEPT ![c] = "read"]
  /\ UNCHANGED <<cfgvars, callvars, last_jpeg, stop_event, threads, lvars, gvars, pvars, svars,
                 cdata, cout, ccount, published, gghost, pghost>>

\* a faulty gen(): the test "if data" is missing
EmitsSegmentAlways(data) == TRUE

\* the test in front of the yield: if data:
EmitsSegment(data) == Truthy(data)

\* a faulty gen(): an empty buffer ends the stream
AfterEmptyReadEnds == "ended"

\* where gen() goes when it has read an empty buffer: into its sleep
AfterEmptyRead == "sleep"

\* a faulty gen(): the frame is taken out of the buffer when it is read
BufferTakenByClient == None

\* _last_jpeg when gen() has read it: gen() never assigns it
BufferAfterClientRead == last_jpeg

\* a faulty gen(): the rest of the loop body sits inside "with _cap_lock:"
LockKeptByClient(c) == c

\* _cap_lock when gen() has read _last_jpeg: the with block ends there
LockAfterClientRead(c) == "free"

\* data = _last_jpeg (lock released); if data: yield (b"--frame\r\n" ... +
\* data + b"\r\n"), which hands the chunk to the server and suspends the
\* generator; else straight to the sleep
ClientRead(c) ==
  /\ Running
  /\ cpc[c] = "read"
  /\ cap_lock' = LockAfterClientRead(c)
  /\ last_jpeg' = BufferAfterClientRead
  /\ IF EmitsSegment(ReadBuffer)
     THEN /\ cdata' = [cdata EXCEPT ![c] = ReadBuffer]
          /\ cout' = [cout EXCEPT ![c] = Segment(ReadBuffer)]
          /\ ccount' = [ccount EXCEPT ![c] = @ + 1]
          /\ cpc' = [cpc EXCEPT ![c] = "yielded"]
          /\ UNCHANGED seen
     ELSE /\ cpc' = [cpc EXCEPT ![c] = AfterEmptyRead]
          /\ seen' = [seen EXCEPT ![c] = 0]
          /\ UNCHANGED <<cdata, cout, ccount>>
  /\ UNCHANGED <<cfgvars, callvars, stop_event, threads, lvars, gvars, pvars, svars,
                 published, gghost, pghost>>

\* the server has written the chunk and asks for the next one: the generator
\* resumes into time.sleep(max(0.02, 1.0 / max(FPS, 5)))
ClientResume(c) ==
  /\ Running
  /\ cpc[c] = "yielded"
  /\ cpc' = [cpc EXCEPT ![c] = "sleep"]
  /\ cdata' = [cdata EXCEPT ![c] = None]
  /\ cout' = [cout EXCEPT ![c] = NoSegment]
  /\ seen' = [seen EXCEPT ![c] = 0]
  /\ UNCHANGED <<cfgvars, callvars, sharedvars, lvars, gvars, pvars, svars, ccount, published,
                 gghost, pghost>>

\* time.sleep(max(0.02, 1.0 / max(FPS, 5))) returns; while True:
\* if stop_event.is_set(): break
ClientWake(c) ==
  /\ Running
  /\ cpc[c] = "sleep"
  /\ cpc' = [cpc EXCEPT ![c] = IF stop_event THEN "ended" ELSE "acquire"]
  /\ UNCHANGED <<cfgvars, callvars, sharedvars, lvars, gvars, pvars, svars, cdata, cout, ccount,
                 published, gghost, pghost, seen>>

Client(c) ==
  \/ ClientConnect(c) \/ ClientDisconnect(c) \/ ClientAcquire(c)
  \/ ClientRead(c) \/ ClientResume(c) \/ ClientWake(c)

\* ------------------------------------------------------------------ time
\* a computation step is pending: it happens before the clock moves on
Urgent ==
  \/ lpc = "join" /\ ~Alive(threads[li])
  \/ gpc \in {"outer", "inner", "acquire", "publish"}
  \/ ppc \in {"start", "loop", "acquire", "read"}
  \/ ppc = "sleep" /\ ptimer = 0
  \/ spc = "read"
  \/ \E c \in Clients : \/ cpc[c] = "read"
                        \/ cpc[c] = "acquire" /\ ccount[c] < MaxSegs

\* one tick passes
Tick ==
  /\ Running
  /\ ~Urgent
  /\ ptimer > 0 \/ jtimer > 0
  /\ ptimer' = IF ptimer > 0 THEN ptimer - 1 ELSE 0
  /\ jtimer' = IF jtimer > 0 THEN jtimer - 1 ELSE 0
  /\ UNCHANGED <<cfgvars, callvars, sharedvars, lpc, li, gvars, ppc, pdata,
                 svars, cvars, published, gghost, pghost, seen>>

Lifespan == Startup \/ Shutdown \/ LifespanJoin

Next ==
  \/ Lifespan
  \/ Grabber
  \/ Pusher
  \/ Snapshot
  \/ \E c \in SpecClients : Client(c)
  \/ Tick

Spec == Init /\ [][Next]_vars

\* open_capture() called on its own, again and again, with every combination
\* of answers from cv2
OpenCaptureCall ==
  \E has \in BOOLEAN, gst \in BOOLEAN, v4l \in BOOLEAN,
     hints \in HintOutcomes, kept \in BOOLEAN :
    /\ answers' = [has |-> has, gst |-> gst, v4l |-> v4l, hints |-> hints,
                   kept |-> kept, tried |-> BackendsTried(has, gst)]
    /\ lastvia' = via
    /\ via' = open_capture(has, gst, v4l, hints, kept)
    /\ UNCHANGED <<cfgvars, sharedvars, lvars, gpc, cap, gdata, pvars, svars,
                   cvars, published, gghost, pghost, seen>>

OpenNext == OpenCaptureCall

OpenSpec == Init /\ [][OpenNext]_vars

\* The service in its default configuration (PRUSA_TOKEN and
\* PRUSA_FINGERPRINT unset: the pusher returns from its first test) with every
\* /mjpeg client connecting
StreamInit == Init /\ PRUSA_TOKEN = "" /\ PRUSA_FINGERPRINT = ""

StreamNext ==
  \/ Lifespan
  \/ Grabber
  \/ PusherStart
  \/ Snapshot
  \/ \E c \in Clients : Client(c)
  \/ Tick

StreamSpec == StreamInit /\ [][StreamNext]_vars

\* Fair scheduling.  The grabber thread keeps running: its sleeps end and its
\* calls into the camera return (weak fairness of its steps), and it gets
\* _cap_lock when the lock is free again and again (strong fairness of its
\* acquire); whoever holds the lock goes on to its read and lets go of it.
Fairness ==
  /\ WF_vars(Grabber)
  /\ SF_vars(GrabberAcquire)
  /\ WF_vars(PusherRead)
  /\ WF_vars(SnapshotRead)
  /\ \A c \in Clients : WF_vars(ClientRead(c))

LiveSpec == Spec /\ Fairness

\* ================================================================= claims

\* every value ever assigned to _last_jpeg
PublishedFrames == {published[i] : i \in 1..Len(published)}
\* what each reader holds from its read of _last_jpeg
ReadersData == {sdata, pdata} \cup {cdata[c] : c \in Clients}

\* C1: no tearing.  Whatever a reader (snapshot(), an /mjpeg generator, the
\* pusher) has obtained from _last_jpeg, and _last_jpeg itself, is the empty
\* sentinel or exactly one frame that was published in full: never a mixture
\* of two published frames, never a partially written frame.
C1_NoTearing ==
  \A d \in ReadersData \cup {last_jpeg} : d = None \/ d \in PublishedFrames

\* C1 witness: a snapshot holds the first frame, read between the two
\* publishes, while the buffer already holds the second one
C1_Witness ==
  /\ spc = "sent" /\ Len(published) = 2
  /\ sdata = published[1] /\ last_jpeg = published[2]

\* C2: GET /snapshot.jpg answers 503 with an empty body if and only if no
\* frame had been published when it read the buffer; otherwise it answers 200
\* with media type image/jpeg and exactly the bytes the buffer held at its
\* single read, also while the device is in an outage.
C2_SnapshotResponse ==
  spc = "sent" =>
    /\ sresp.status_code = 503 <=> seen["snapshot"] = 0
    /\ sresp.status_code = 503 => sresp.content = << >>
    /\ sresp.status_code # 503 =>
         /\ sresp.status_code = 200
         /\ sresp.media_type = "image/jpeg"
         /\ sresp.content = published[seen["snapshot"]].bytes
         /\ Len(sresp.content) > 0

\* C2 witness: a 200 with the one published frame is served while the
\* capture session is released after a failed read
C2_Witness ==
  /\ spc = "sent" /\ sresp.status_code = 200
  /\ cap = "released" /\ nfail > 0
  /\ sresp.content = published[1].bytes

\* C3, the chunk a client holds: boundary marker, content-type header, a
\* Content-Length that reads back as the length of the attached frame, and
\* the attached frame is a complete, non-empty published frame
C3_WellFormed ==
  \A c \in Clients :
    /\ cout[c] # NoSegment <=> cpc[c] = "yielded"
    /\ cpc[c] = "yielded" =>
         /\ cout[c].marker = "--frame\r\n"
         /\ cout[c].content_type = "Content-Type: image/jpeg\r\n"
         /\ ParseInt(cout[c].content_length) = Len(cout[c].payload)
         /\ Len(cout[c].payload) > 0
         /\ Some(cout[c].payload) \in PublishedFrames
         /\ cout[c].trailer = "\r\n"

\* C3, one step of a client: the count of chunks it has received grows by
\* one exactly when a chunk is emitted, which happens only on a non-empty
\* buffer; a poll of an empty buffer emits nothing and goes to the sleep; the
\* count never decreases while the client stays connected
C3_Emission ==
  \A c \in Clients :
    /\ ccount'[c] > ccount[c] =>
         /\ ccount'[c] = ccount[c] + 1
         /\ last_jpeg # None
         /\ cpc'[c] = "yielded"
         /\ cout'[c].payload = last_jpeg.bytes
    /\ (cpc[c] = "read" /\ last_jpeg = None) =>
         (cpc'[c] \in {"read", "sleep"} /\ cout'[c] = NoSegment)
    /\ (cpc[c] = "read" /\ last_jpeg # None /\ cpc'[c] # "read") =>
         ccount'[c] = ccount[c] + 1
    /\ ccount'[c] < ccount[c] => cpc'[c] = "idle" \/ cpc[c] = "idle"

\* C3: every segment the /mjpeg generator emits is well formed (marker,
\* content type, Content-Length equal to the length of the attached frame,
\* the frame a complete published one); no segment is emitted on an empty
\* buffer; the count of segments of a connected client keeps increasing.
C3_Segments == []C3_WellFormed /\ [][C3_Emission]_vars

\* C3 witness: a connected client holds its second chunk, which carries the
\* second published frame
C3_Witness ==
  \E c \in Clients :
    /\ cpc[c] = "yielded" /\ ccount[c] = 2
    /\ Len(published) = 2 /\ cout[c].payload = published[2].bytes

\* C4 as stated: after each read failure exactly one open_capture() attempt
\* is made before any further read, so N failures give N attempts, each
\* after a backoff sleep.
C4_ExactlyOneAttempt ==
  /\ (gpc = "read" /\ nfail > 0) => opens = 1
  /\ (gpc = "open" /\ nfail > 0) => backoff

\* C4 amended: each read failure releases the session and is followed,
\* before any further read, by at least one open_capture() attempt and by
\* exactly one that succeeds (N failures, N re-opened sessions); a failed
\* open_capture() is tried again; every attempt but the very first of the
\* run comes after a backoff sleep.
C4_ReopenCycles ==
  /\ (gpc = "read" /\ nfail > 0) => opens >= 1
  /\ gpc = "read" => cap = "open"
  /\ cap = "open" => nopened = nfail + 1
  /\ cap # "open" => nopened = nfail
  /\ (cap # "open" /\ nfail > 0) => cap = "released"
  /\ (gpc = "open" /\ (nfail > 0 \/ opens > 0)) => backoff

\* C4 witness: two read failures in a row (no frame read in between), and
\* the grabber is reading again on its third session
C4_Witness ==
  /\ gpc = "read" /\ nfail = 2 /\ nread = 0
  /\ nopened = 3 /\ opens = 1

\* C5: when lifespan has finished its stop half (the stop signal set, every
\* live thread joined for at most 2 s), the grabber thread and the pusher
\* thread have both terminated.
C5_TerminatedInGrace ==
  lpc = "stopped" => \A i \in 1..Len(threads) : ~Alive(threads[i])

\* C6: the capture session is released before the grabber thread ends: when
\* grabber_worker has returned, no session it opened is still open.
C6_ReleasedAtExit == gpc = "done" => cap # "open"

\* the configuration the claim calls "push credentials unset"
CredentialsUnset == PRUSA_TOKEN = "" \/ PRUSA_FINGERPRINT = ""

\* C7: with PRUSA_TOKEN or PRUSA_FINGERPRINT empty the pusher makes no
\* network call in the whole run: it returns from its first test, never
\* enters its loop, never takes the lock or reads the buffer, whatever the
\* buffer holds later.
C7_DisabledPusher ==
  CredentialsUnset =>
    /\ uploads = 0
    /\ ppc \in {"unstarted", "start", "done"}
    /\ pdata = None /\ cap_lock # "prusa" /\ ~pslept

\* C7 witness: only the fingerprint is missing, the pusher has returned, and
\* frames have been published since
C7_Witness ==
  /\ PRUSA_TOKEN # "" /\ PRUSA_FINGERPRINT = ""
  /\ ppc = "done" /\ lpc = "running" /\ Len(published) = 2

\* C8, the states: the pusher thread has ended only if it was disabled at
\* its start or the stop signal is set; it is about to upload only after a
\* completed PUSH_EVERY sleep
C8_PusherKeepsRunning ==
  /\ ppc = "done" => CredentialsUnset \/ stop_event
  /\ ppc = "put" => pslept /\ ~CredentialsUnset

\* C8, one step: a sess.put() that ends with a status >= 400 or raises takes
\* the pusher back to the top of its loop and changes neither _last_jpeg nor
\* anything of the grabber, of snapshot() or of the /mjpeg generators
C8_FailedPut ==
  \A outcome \in {"http_error", "exception"} :
    PusherPut(outcome) =>
      /\ ppc' = "loop"
      /\ UNCHANGED <<last_jpeg, cap_lock, stop_event, published>>
      /\ UNCHANGED <<gvars, gghost, svars, cvars>>

\* C8: with credentials set and uploads failing (status >= 400 or a
\* transport exception), the pusher does not terminate and goes on with one
\* upload per PUSH_EVERY sleep, and a failed upload changes neither the
\* frame buffer nor the state of the grabber or of the HTTP handlers.
C8_FailuresSwallowed == []C8_PusherKeepsRunning /\ [][C8_FailedPut]_vars

\* C8 witness: the last upload failed, and the pusher has been through a
\* further sleep and holds the next frame to upload while the service runs
C8_Witness ==
  /\ putfailed /\ uploads = 1 /\ ppc = "put"
  /\ ~stop_event /\ Len(published) = 2 /\ pdata = published[2]

\* C9: no failure ends the grabber thread: it has left its loop (returned,
\* or died of an exception) only after the stop signal was set.
C9_GrabberLifetime == gpc \in {"done", "crashed"} => stop_event

\* what reader r holds is the latest frame as of its read: with n frames
\* published when it took the lock, it holds the n-th or a later one, and it
\* holds the empty sentinel only when n = 0
LatestAsOfRead(d, n) ==
  /\ d = None <=> n = 0
  /\ d # None => \E j \in n..Len(published) : d = published[j]

\* C10, the states of the three kinds of reader
C10_ReadersHoldLatest ==
  /\ spc = "sent" => LatestAsOfRead(sdata, seen["snapshot"])
  /\ ppc = "put" => LatestAsOfRead(pdata, seen["prusa"])
  /\ \A c \in Clients : cpc[c] = "yielded" => LatestAsOfRead(cdata[c], seen[c])

\* C10, one step: the pusher skips its upload, and a generator skips its
\* yield, only when nothing had been published at their read
C10_SkipOnlyWhenEmpty ==
  /\ (ppc = "read" /\ ppc' = "loop") => Len(published) = 0
  /\ \A c \in Clients : (cpc[c] = "read" /\ cpc'[c] = "sleep") => Len(published) = 0

\* C10: a read of the frame buffer that starts after a publish has
\* completed returns that frame or a later one, never an older one, and
\* returns the empty sentinel only if nothing was ever published; this holds
\* for snapshot(), for each /mjpeg generator and for the pusher.
C10_LatestFrame == []C10_ReadersHoldLatest /\ [][C10_SkipOnlyWhenEmpty]_vars

\* C10 witness: the pusher and a stream client each read after the second
\* publish and hold the second frame, not the first
C10_Witness ==
  /\ ppc = "put" /\ seen["prusa"] = 2 /\ pdata = published[2]
  /\ \E c \in Clients : cpc[c] = "yielded" /\ seen[c] = 2 /\ cdata[c] = published[2]

\* the device is in an outage: the loop holds no session and every
\* open_capture() made since it lost (or first wanted) one has raised
DeviceOutage ==
  /\ gpc \in {"outer", "open", "sleep_open"}
  /\ cap # "open" /\ opens >= 1

\* the value the buffer should hold: the last published frame, if any
LastPublished == IF Len(published) = 0 THEN None ELSE published[Len(published)]

\* C11 as stated: during a device outage the buffer is empty for the HTTP
\* clients: a snapshot() that reads it answers 503 and an /mjpeg generator
\* that reads it emits no segment.
C11_OutageEmptyBuffer ==
  DeviceOutage =>
    /\ spc = "read" => SnapshotResponse(ReadBuffer).status_code = 503
    /\ \A c \in Clients : cpc[c] = "read" => ~EmitsSegment(ReadBuffer)

\* C11 amended: a device outage reaches the HTTP clients only through the
\* frame buffer, which it leaves as it was: empty when nothing was published
\* before the outage (snapshot() answers 503, the generators emit nothing),
\* and otherwise still holding the last frame published before the outage
\* (snapshot() answers 200 with that frame, the generators go on emitting it).
C11_OutageLeavesBuffer ==
  DeviceOutage =>
    /\ last_jpeg = LastPublished
    /\ spc = "read" =>
         /\ SnapshotResponse(ReadBuffer).status_code
              = (IF Len(published) = 0 THEN 503 ELSE 200)
         /\ SnapshotResponse(ReadBuffer).content = LastPublished.bytes
    /\ \A c \in Clients : cpc[c] = "read" =>
         /\ EmitsSegment(ReadBuffer) <=> Len(published) > 0
         /\ Len(published) > 0 => Segment(ReadBuffer).payload = LastPublished.bytes

\* C11 witness: open_capture() has failed after a read failure, one frame was
\* published before, and both a snapshot and a stream client are at their read
C11_Witness ==
  /\ DeviceOutage /\ gpc = "sleep_open" /\ nfail = 1 /\ Len(published) = 1
  /\ spc = "read" \/ \E c \in Clients : cpc[c] = "read"

\* a step in which cap.read() delivered a frame and its encoding failed
\* (cv2.imencode returned not ok, or raised): no bytes to publish came out
EncodeFailedStep == gpc = "read" /\ nread' = nread + 1 /\ gpc' # "acquire"

\* C12: an encode failure is skipped without tearing down the session: the
\* loop stays in streaming with the same open session (no release, no
\* re-open), the frame buffer is left as it was, and the loop goes on (through
\* the frame sleep) to its next read.
C12_EncodeFailureSkipped ==
  [][EncodeFailedStep =>
       /\ gpc' = "sleep_frame"
       /\ cap = "open" /\ cap' = "open"
       /\ UNCHANGED <<last_jpeg, published, nopened, nfail, opens>>]_vars

\* the state of the Acquisition Loop, from where grabber_worker is
LoopStateAt(pc) ==
  IF pc \in {"inner", "read", "acquire", "publish", "sleep_frame"} THEN "streaming"
  ELSE IF pc \in {"outer", "open", "sleep_open", "sleep_read", "sleep_outer"}
       THEN "disconnected"
  ELSE "ended"
\* a step in which cap.read() failed
ReadFailedStep == gpc = "read" /\ nfail' = nfail + 1
\* a step in which cap.read() delivered a frame and cv2.imencode raised
EncodeRaisedStep ==
  gpc = "read" /\ nread' = nread + 1 /\ gpc' \notin {"acquire", "sleep_frame"}

\* C13: the Acquisition Loop is a two-state machine.  It goes from
\* disconnected to streaming only by an open_capture() that succeeds; before
\* the stop signal it leaves streaming only for disconnected, and only by a
\* read failure or an encode exception, each of which takes it there.
C13_TwoStateMachine ==
  [][/\ (LoopStateAt(gpc) = "disconnected" /\ LoopStateAt(gpc') = "streaming") =>
          (gpc = "open" /\ via' \in {"gst", "v4l2"} /\ cap' = "open")
     /\ (LoopStateAt(gpc) = "streaming" /\ LoopStateAt(gpc') # "streaming"
           /\ ~stop_event) =>
          (LoopStateAt(gpc') = "disconnected" /\ (ReadFailedStep \/ EncodeRaisedStep))
     /\ ReadFailedStep => LoopStateAt(gpc') = "disconnected"
     /\ EncodeRaisedStep => LoopStateAt(gpc') = "disconnected"]_vars

\* C14: the loop holds at most one open, unreleased capture session: the
\* sessions opened outnumber the ones released by one exactly while a session
\* is held; a failed read releases the session before the backoff sleep, and
\* open_capture() is called only with no session held and, after a failure,
\* after the sleep; a read is only ever made on the session opened last, never
\* on one that has failed.
C14_SessionOwnership ==
  /\ nopened - nfail \in {0, 1}
  /\ cap = "open" <=> nopened - nfail = 1
  /\ gpc = "open" => cap # "open"
  /\ gpc = "sleep_read" => cap = "released" /\ ~backoff
  /\ (gpc = "open" /\ nfail > 0) => cap = "released" /\ backoff
  /\ gpc \in {"inner", "read", "acquire", "publish", "sleep_frame"} => cap = "open"

\* C14 witness: the second session has failed and is released, the backoff
\* has been slept, and the loop is about to open its third session
C14_Witness ==
  /\ gpc = "open" /\ cap = "released" /\ backoff
  /\ nfail = 2 /\ nopened = 2 /\ opens = 0

\* C15: recovery by indefinite retry, under fair scheduling.  The loop ends
\* only after the stop signal; while the signal is not set a disconnected
\* loop gets to streaming again, whatever opens and reads have failed; and as
\* long as the camera has frames to deliver (the model's camera delivers
\* MaxFrames of them) a further frame is published.
C15_Recovery ==
  /\ [](gpc = "done" => stop_event)
  /\ (LoopStateAt(gpc) = "disconnected" /\ ~stop_event)
       ~> (LoopStateAt(gpc) = "streaming" \/ stop_event)
  /\ \A k \in 0..(MaxFrames - 1) :
       (gpc # "unstarted" /\ Len(published) = k)
         ~> (Len(published) > k \/ stop_event \/ nread = MaxFrames)

\* who is inside its "with _cap_lock:" block, by its position
InsideLock ==
  (IF gpc = "publish" THEN {"grabber"} ELSE {})
    \cup (IF ppc = "read" THEN {"prusa"} ELSE {})
    \cup (IF spc = "read" THEN {"snapshot"} ELSE {})
    \cup {c \in Clients : cpc[c] = "read"}

\* C16: _cap_lock is held by at most one thread at a time, and only across
\* its one reference read or reference swap: never across a sleep, a device
\* read, an encode, the upload or a yield.  While the process runs, the very
\* next step of the holder lets go of the lock and is enabled, and a grabber
\* that waits for a free lock can take it: no interleaving deadlocks.
C16_LockDiscipline ==
  /\ InsideLock = (IF cap_lock = "free" THEN {} ELSE {cap_lock})
  /\ Cardinality(InsideLock) <= 1
  /\ (Running /\ cap_lock = "grabber") => ENABLED GrabberPublish
  /\ (Running /\ cap_lock = "prusa") => ENABLED PusherRead
  /\ (Running /\ cap_lock = "snapshot") => ENABLED SnapshotRead
  /\ \A c \in Clients : (Running /\ cap_lock = c) => ENABLED ClientRead(c)
  /\ (Running /\ gpc = "acquire" /\ cap_lock = "free") => ENABLED GrabberAcquire

\* C16 witness: the grabber has a frame to publish and waits for the lock, as
\* does the pusher, while a stream client is inside its read
C16_Witness ==
  /\ gpc = "acquire" /\ ppc = "acquire"
  /\ \E c \in Clients : cap_lock = c /\ cpc[c] = "read"

\* a step of stream client c: it connects, polls, is served or disconnects
ClientStep(c) == cpc'[c] # cpc[c] \/ cdata'[c] # cdata[c] \/ cout'[c] # cout[c]
\* everything of the Acquisition Loop and of the frame buffer
AcquisitionState == <<last_jpeg, published, gvars, gghost>>
\* everything of stream client c
ClientState(c) == <<cpc[c], cdata[c], cout[c], ccount[c]>>

\* C17: single writer, read-only consumers.  _last_jpeg changes only in the
\* grabber's publish, to the bytes it has just encoded; no step of
\* snapshot(), of the pusher or of a stream client changes the buffer or the
\* state of the Acquisition Loop; and a step of one stream client (connect,
\* poll, chunk served, disconnect) changes nothing of any other client.
C17_SingleWriter ==
  [][/\ last_jpeg' # last_jpeg =>
          /\ gpc = "publish" /\ cap_lock = "grabber"
          /\ last_jpeg' = Some(gdata) /\ Len(gdata) > 0
     /\ (spc' # spc \/ (ppc # "unstarted" /\ ppc' # ppc)) =>
          /\ UNCHANGED AcquisitionState
          /\ \A c \in Clients : ClientState(c)' = ClientState(c)
     /\ \A c \in Clients : ClientStep(c) =>
          /\ UNCHANGED AcquisitionState
          /\ UNCHANGED <<svars, pvars>>
          /\ \A d \in Clients \ {c} : ClientState(d)' = ClientState(d)]_vars

\* C17 witness: two stream clients are connected at once, one holds the
\* first frame and the other the second, which the buffer holds
C17_Witness ==
  /\ cpc["c1"] = "yielded" /\ cpc["c2"] = "yielded" /\ Len(published) = 2
  /\ cdata["c1"] = published[1] /\ cdata["c2"] = published[2]
  /\ last_jpeg = published[2]

\* C18, the states of an iteration: the pusher takes the lock, reads and
\* uploads only after a completed time.sleep(PUSH_EVERY) that no upload has
\* followed yet, and what it is about to upload is the frame it read
C18_IterationStates ==
  /\ ppc \in {"acquire", "read", "put"} => pslept
  /\ ppc = "put" => /\ seen["prusa"] > 0
                    /\ pdata = published[seen["prusa"]]
  /\ uploads > 0 => ~PusherDisabled

\* C18, the steps of an iteration: an upload is made from the put position
\* after a completed sleep, counts as one, and leaves the pusher at its loop
\* test with a new sleep due before any further upload; a read of an empty
\* buffer goes back to the loop test with no upload; the sleep is entered
\* from the loop test only
C18_IterationSteps ==
  /\ uploads' # uploads =>
       /\ uploads' = uploads + 1
       /\ ppc = "put" /\ pslept
       /\ ppc' = "loop" /\ ~pslept'
  /\ (ppc = "read" /\ ppc' # "read") =>
       /\ uploads' = uploads
       /\ ppc' = (IF last_jpeg = None THEN "loop" ELSE "put")
  /\ (ppc' = "sleep" /\ ppc # "sleep") => ppc = "loop"
  /\ (ppc' = "acquire" /\ ppc # "acquire") => ppc = "sleep"

\* C18: each iteration of the pusher sleeps PUSH_EVERY first, then reads the
\* buffer once, then skips (no network call) on an empty buffer or makes
\* exactly one upload of the frame it read; a failed upload is not tried
\* again before the next sleep, and nothing is uploaded before the first
\* sleep is over.
C18_IterationOrder == []C18_IterationStates /\ [][C18_IterationSteps]_vars

\* C18 witness: an upload has failed and the pusher is in its next sleep,
\* with a newer frame in the buffer that it has not taken
C18_Witness ==
  /\ uploads = 1 /\ putfailed /\ ppc = "sleep" /\ ~pslept
  /\ ~stop_event /\ Len(published) = 2 /\ pdata = None

\* C19, the states: a generator has ended by itself only with the stop
\* signal set, and an ended generator holds no chunk
C19_EndedStates ==
  \A c \in Clients : cpc[c] = "ended" => stop_event /\ cout[c] = NoSegment

\* C19, the steps: a generator ends only at its stop test (on connecting, or
\* after its sleep), and that test ends it exactly when the signal is set;
\* past the test it never ends before the next one, whatever it reads; an
\* ended generator emits nothing more and only goes away with its client
C19_EndingSteps ==
  \A c \in Clients :
    /\ (cpc'[c] = "ended" /\ cpc[c] # "ended") =>
         cpc[c] \in {"idle", "sleep"} /\ stop_event
    /\ (cpc[c] \in {"idle", "sleep"} /\ cpc'[c] # cpc[c]) =>
         cpc'[c] = (IF stop_event THEN "ended" ELSE "acquire")
    /\ (cpc[c] = "read" /\ cpc'[c] # "read") => cpc'[c] \in {"yielded", "sleep"}
    /\ cpc[c] = "ended" =>
         /\ cpc'[c] \in {"ended", "idle"}
         /\ ccount'[c] <= ccount[c] /\ cout'[c] = NoSegment

\* C19: the /mjpeg sequence of a client ends only when the client
\* disconnects or the process is shutting down: with the stop signal unset a
\* connected generator never ends by itself (not on a frame count, an empty
\* buffer or an outage), and with the signal set it ends at its next stop
\* test and emits nothing after it.
C19_StreamTermination == []C19_EndedStates /\ [][C19_EndingSteps]_vars

\* C19 witness: a client that received two chunks saw its stream end at the
\* stop test after the stop signal, while the process is still shutting down
C19_Witness ==
  /\ stop_event /\ Running
  /\ \E c \in Clients : cpc[c] = "ended" /\ ccount[c] = 2

\* open_capture() has been called on its own
Called == answers # NoAnswers
\* the GStreamer backend is there and its pipeline opened
PrimaryOpens == answers.has /\ answers.gst
\* the V4L2 device opened, and it is still open after the hints
SecondaryStaysOpen == answers.v4l /\ answers.kept
\* the order of the backends: GStreamer first, V4L2 only after GStreamer
\* gave no session
PrimaryFirst ==
  /\ answers.tried[1] = "gst"
  /\ (Len(answers.tried) = 2) = ~PrimaryOpens
  /\ Len(answers.tried) = 2 => answers.tried[2] = "v4l2"

\* C20 as the specification states it: open_capture() tries GStreamer first
\* and V4L2 only if GStreamer gave nothing; it returns a session if and only
\* if at least one backend opened (the GStreamer one whenever that opened)
\* and raises if and only if neither opened.
C20_SessionIffBackendOpened ==
  Called =>
    /\ PrimaryFirst
    /\ PrimaryOpens => via = "gst"
    /\ (via \in {"gst", "v4l2"}) = (PrimaryOpens \/ answers.v4l)
    /\ (via = "error") = ~(PrimaryOpens \/ answers.v4l)

\* C20: open_capture() tries GStreamer first and V4L2 only if GStreamer gave
\* nothing; it returns the GStreamer session whenever that backend opened,
\* the V4L2 session if and only if GStreamer gave nothing and the V4L2 device
\* opened and is still open after the FOURCC/size/FPS hints were applied,
\* and raises if and only if neither is so; whether the hints were taken,
\* turned down or raised makes no difference, and neither does what the call
\* before returned.
C20_OpenCapture ==
  Called =>
    /\ PrimaryFirst
    /\ (via = "gst") = PrimaryOpens
    /\ (via = "v4l2") = (~PrimaryOpens /\ SecondaryStaysOpen)
    /\ (via = "error") = (~PrimaryOpens /\ ~SecondaryStaysOpen)

\* C20 witness: after a call that raised, the next call fell back from a
\* GStreamer pipeline that did not open to the V4L2 device, which turned the
\* hints down and stayed open
C20_Witness ==
  /\ Called /\ lastvia = "error" /\ via = "v4l2"
  /\ answers.has /\ ~answers.gst /\ answers.tried = <<"gst", "v4l2">>
  /\ answers.hints = "rejected"

====
